---------------------------- MODULE Spec2Model ----------------------------
(***************************************************************************)
(* nu_plugin_cassandra_query: the `cassandra-query` command of src/main.rs.*)
(*                                                                         *)
(* run() connects, executes the statement, reads the column names, spawns  *)
(* the paging task and returns a ListStream over the receiving end of a    *)
(* bounded sync_channel.  The paging task converts every row of the        *)
(* current page with get_cassandra_value, sends the record, and asks the   *)
(* driver for the next page while the cursor carries a paging state token. *)
(*                                                                         *)
(* The specifications:                                                     *)
(*   Spec      the whole command: run(), the paging task, the consumer     *)
(*   LiveSpec  Spec with the fairness of the runtime and of a consumer     *)
(*             that keeps draining                                         *)
(*   ConvSpec  get_cassandra_value applied to one wire value               *)
(*   RowSpec   the record of one row built from its columns                *)
(*   DuoSpec   two calls of the command on the one runtime thread          *)
(*   DuoLiveSpec  DuoSpec with the fairness of the runtime, of the driver  *)
(*             and of the second call's consumer                           *)
(***************************************************************************)
EXTENDS Integers, Sequences, FiniteSets, TLC

VARIABLES
    pc,         \* position of run() (lines 70-134)
    ret,        \* what run() returned: "none", "Err" or "Ok"
    task,       \* position of the spawned paging task (lines 91-129)
    pages,      \* the result set on the server: row count of every page
    columns,    \* line 86: the column names read from the first page
    result,     \* the page the current CassResult holds (0: none yet)
    next_result,\* line 114: the page `next_result` holds (0: not bound)
    iter,       \* rows of `result` the row iterator has yielded
    record,     \* the value the task is about to send (lines 104, 110, 119)
    chan,       \* the buffer of sync_channel(1024)
    rx,         \* the receiving end: none, held, open, dropped, eos
    received,   \* what the consumer has taken from the stream, in order
    session,    \* "none", "live", "dropped"
    cluster,    \* "none", "live", "dropped"
    stmts,      \* how many times execute_with_payloads was called
    hist,       \* history of the run (what failed, what was released)
    cvIn,       \* ConvSpec, RowSpec: the wire value, the cells of the row
    cvOut,      \* ConvSpec, RowSpec: the value, the record built from it
    rt          \* DuoSpec: the runtime thread and the two queries on it

vars == <<pc, ret, task, pages, columns, result, next_result, iter, record,
          chan, rx, received, session, cluster, stmts, hist, cvIn, cvOut,
          rt>>

pipeVars == <<pc, ret, task, pages, columns, result, next_result, iter,
              record, chan, rx, received, session, cluster, stmts, hist>>

(***************************************************************************)
(* Bounds of the model.                                                    *)
(***************************************************************************)
\* pages of a result set
MaxPages == 3
\* rows of a result set, over all its pages
MaxRows == 3
\* records the channel buffers (sync_channel(1024) in the source)
ChannelCapacity == 2
\* elements of a LIST, SET, TUPLE or MAP value
MaxItems == 2
\* elements of a collection nested in a collection
MaxInnerItems == 1

(***************************************************************************)
(* nu_protocol::Value, as far as the command builds it.                    *)
(***************************************************************************)
VInt(n)      == [variant |-> "Int64", i |-> n]
VString(str) == [variant |-> "String", s |-> str]
VBinary(b)   == [variant |-> "Bytes", b |-> b]
VBool(t)     == [variant |-> "Boolean", t |-> t]
VFloat(x)    == [variant |-> "Float64", f |-> x]
VDate(ms)    == [variant |-> "Timestamp", ms |-> ms]
VDuration(n) == [variant |-> "Duration", i |-> n]
VList(items) == [variant |-> "List", items |-> items]
VRecord(rc)  == [variant |-> "Record", cols |-> rc]
VError(msg, label) == [variant |-> "Error", msg |-> msg, label |-> label]
\* not a Value: the call did not return, the thread unwinds
Panic(msg)   == [variant |-> "Panic", msg |-> msg]

IsPanic(v) == v.variant = "Panic"
IsError(v) == v.variant = "Error"


(***************************************************************************)
(* 64-bit integers.  TLC's integers are 32 bits wide, so an i64 is kept as *)
(* three limbs: the value of <<a, b, c>> is (a * Limb + b) * Limb + c with *)
(* 0 <= b, c < Limb; a carries the sign (floor representation).            *)
(***************************************************************************)
RECURSIVE Pow10(_)
Pow10(k) == IF k = 0 THEN 1 ELSE 10 * Pow10(k - 1)

Limb == Pow10(9)

I64(a, b, c) == <<a, b, c>>

\* AsI64 that widens the 32 bits of v without their sign (v as u32 as i64)
AsI64_ZeroExtend(v) ==
    LET c == (v % Limb) + (IF v < 0 THEN 294967296 ELSE 0)
        t == (v \div Limb) + (IF v < 0 THEN 4 ELSE 0) + (c \div Limb)
    IN  I64(t \div Limb, t % Limb, c % Limb)

\* `v as i64` for an i8, i16 or i32 v (lines 163, 199, 201): sign-extending
\* widening, computed limb by limb
AsI64(v) ==
    LET c == v % Limb
        t == v \div Limb
        b == t % Limb
        a == t \div Limb
    IN  I64(a, b, c)

I64Le(x, y) ==
    \/ x[1] < y[1]
    \/ x[1] = y[1] /\ x[2] < y[2]
    \/ x[1] = y[1] /\ x[2] = y[2] /\ x[3] <= y[3]

\* i64::MIN and i64::MAX
I64Min == I64(-10, 776627963, 145224192)
I64Max == I64(9, 223372036, 854775807)

\* chrono's DateTime range in milliseconds since the epoch:
\* -262143-01-01T00:00:00.000 .. +262142-12-31T23:59:59.999
ChronoMinMillis == I64(-1, 991665398, 684800000)
ChronoMaxMillis == I64(0, 8210266, 876799999)

\* chrono::DateTime::from_timestamp_millis (line 169): None out of range
from_timestamp_millis(v) ==
    IF I64Le(ChronoMinMillis, v) /\ I64Le(v, ChronoMaxMillis)
    THEN [some |-> TRUE, ms |-> v]
    ELSE [some |-> FALSE]

(***************************************************************************)
(* Text produced by the conversions.                                       *)
(***************************************************************************)
DecDigit == <<"0", "1", "2", "3", "4", "5", "6", "7", "8", "9">>
HexDigit == <<"0", "1", "2", "3", "4", "5", "6", "7", "8", "9",
              "a", "b", "c", "d", "e", "f">>

RECURSIVE NatToString(_)
NatToString(n) ==
    IF n < 10 THEN DecDigit[n + 1]
    ELSE NatToString(n \div 10) \o DecDigit[(n % 10) + 1]

RECURSIVE ZeroPad(_, _)
ZeroPad(str, width) ==
    IF Len(str) >= width THEN str ELSE ZeroPad("0" \o str, width)

\* BigDecimal's Display (line 152) for a decimal unscaled * 10^(-scale)
DecimalToString(unscaled, scale) ==
    LET mag  == IF unscaled < 0 THEN -unscaled ELSE unscaled
        sign == IF unscaled < 0 THEN "-" ELSE ""
        int  == mag \div Pow10(scale)
        frac == mag % Pow10(scale)
    IN  IF scale = 0 THEN sign \o NatToString(mag)
        ELSE sign \o NatToString(int) \o "." \o
             ZeroPad(NatToString(frac), scale)

HexByte(b) == HexDigit[(b \div 16) + 1] \o HexDigit[(b % 16) + 1]

RECURSIVE HexBytes(_, _, _)
HexBytes(bytes, from, to) ==
    IF from > to THEN ""
    ELSE HexByte(bytes[from]) \o HexBytes(bytes, from + 1, to)

\* Uuid::from_slice (line 178): exactly 16 bytes, else an error
UuidFromSlice(bytes) ==
    IF Len(bytes) = 16
    THEN [ok |-> TRUE, uuid |-> bytes]
    ELSE [ok |-> FALSE,
          err |-> "invalid length: expected 16 bytes, found "
                  \o NatToString(Len(bytes))]

\* Uuid's Display (line 179): the hyphenated lower-case form
UuidToString(uuid) ==
    HexBytes(uuid, 1, 4) \o "-" \o HexBytes(uuid, 5, 6) \o "-" \o
    HexBytes(uuid, 7, 8) \o "-" \o HexBytes(uuid, 9, 10) \o "-" \o
    HexBytes(uuid, 11, 16)

(***************************************************************************)
(* cassandra_cpp::Value as the driver hands it out: the type tag, whether  *)
(* the typed getter the converter calls for that tag succeeds ("ok") or    *)
(* returns a cassandra_cpp::Error, and the decoded payload p.              *)
(***************************************************************************)
Wire(tag, get, p) == [tag |-> tag, get |-> get, p |-> p]

\* cassandra_cpp::ValueType
ValueType ==
    {"UNKNOWN", "CUSTOM", "ASCII", "BIGINT", "BLOB", "BOOLEAN", "COUNTER",
     "DECIMAL", "DOUBLE", "FLOAT", "INT", "TEXT", "TIMESTAMP", "UUID",
     "VARCHAR", "VARINT", "TIMEUUID", "INET", "DATE", "TIME", "SMALL_INT",
     "TINY_INT", "DURATION", "LIST", "MAP", "SET", "UDT", "TUPLE"}

\* LabelCassandraError::label (lines 237-243)
label(err) == VError("Cassandra query error", err)

\* `getter().label(span).map(..)` followed by the unwrap_or_else of line
\* 228; mapped is the value of the closure, used when the getter succeeded
LabelMap(val, mapped) == IF val.get = "ok" THEN mapped ELSE label(val.get)

\* line 219: key.get_str().unwrap_or("<error>"); get_str is the getter the
\* converter calls on a map key, whatever the key's type tag
get_str(key) == IF key.get = "ok" THEN key.p.s ELSE "<error>"

\* Record::insert (nu_protocol): replaces the value of a column that is
\* already there, else pushes the column at the end
RECURSIVE RecordInsert(_, _, _)
RecordInsert(rc, col, val) ==
    IF rc = <<>> THEN <<[col |-> col, val |-> val]>>
    ELSE IF Head(rc).col = col
         THEN <<[col |-> col, val |-> val]>> \o Tail(rc)
         ELSE <<Head(rc)>> \o RecordInsert(Tail(rc), col, val)

\* the first panic among converted values, if any: the conversion that
\* panics is the last one that runs
AnyPanic(vals) == \E k \in 1..Len(vals) : IsPanic(vals[k])
FirstPanic(vals) ==
    vals[CHOOSE k \in 1..Len(vals) :
            IsPanic(vals[k]) /\ \A j \in 1..(k - 1) : ~IsPanic(vals[j])]

RECURSIVE get_cassandra_value(_)
RECURSIVE MapRecord(_, _)

\* lines 216-222: the loop over the map's pairs
MapRecord(pairs, rc) ==
    IF pairs = <<>> THEN VRecord(rc)
    ELSE LET v == get_cassandra_value(Head(pairs)[2])
         IN  IF IsPanic(v) THEN v
             ELSE MapRecord(Tail(pairs),
                            RecordInsert(rc, get_str(Head(pairs)[1]), v))

\* lines 208-214: the loop over the collection's items
ListValue(items) ==
    LET vals == [k \in 1..Len(items) |-> get_cassandra_value(items[k])]
    IN  IF AnyPanic(vals) THEN FirstPanic(vals) ELSE VList(vals)

\* lines 167-174: TIMESTAMP
TimestampValue(v) ==
    LET dt == from_timestamp_millis(v)
    IN  IF dt.some THEN VDate(dt.ms) ELSE Panic("bad date")

\* lines 175-179: UUID
UuidValue(bytes) ==
    LET u == UuidFromSlice(bytes)
    IN  IF u.ok THEN VString(UuidToString(u.uuid)) ELSE VError(u.err, "")

\* lines 136-229
get_cassandra_value(val) ==
    CASE val.tag = "ASCII"     -> LabelMap(val, VString(val.p.s))
      [] val.tag = "BIGINT"    -> LabelMap(val, VInt(val.p.i64))
      [] val.tag = "BLOB"      -> LabelMap(val, VBinary(val.p.b))
      [] val.tag = "BOOLEAN"   -> LabelMap(val, VBool(val.p.t))
      [] val.tag = "COUNTER"   -> LabelMap(val, VInt(val.p.i64))
      [] val.tag = "DECIMAL"   ->
            LabelMap(val,
                VString(DecimalToString(val.p.unscaled, val.p.scale)))
      [] val.tag = "DOUBLE"    -> LabelMap(val, VFloat(val.p.f))
      [] val.tag = "FLOAT"     -> LabelMap(val, VFloat(val.p.f))
      [] val.tag = "INT"       -> LabelMap(val, VInt(AsI64(val.p.i32)))
      [] val.tag = "TEXT"      -> LabelMap(val, VString(val.p.s))
      [] val.tag = "TIMESTAMP" ->
            LabelMap(val, TimestampValue(val.p.i64))
      [] val.tag = "UUID"      -> LabelMap(val, UuidValue(val.p.b))
      [] val.tag = "VARCHAR"   -> LabelMap(val, VString(val.p.s))
      [] val.tag = "VARINT"    -> LabelMap(val, VInt(val.p.i64))
      [] val.tag = "TIMEUUID"  -> LabelMap(val, VString(val.p.s))
      [] val.tag = "INET"      -> LabelMap(val, VString(val.p.s))
      [] val.tag = "DATE"      -> LabelMap(val, VString(val.p.s))
      [] val.tag = "TIME"      -> LabelMap(val, VString(val.p.s))
      [] val.tag = "SMALL_INT" -> LabelMap(val, VInt(AsI64(val.p.i16)))
      [] val.tag = "TINY_INT"  -> LabelMap(val, VInt(AsI64(val.p.i8)))
      [] val.tag = "DURATION"  -> LabelMap(val, VDuration(val.p.i64))
      [] val.tag \in {"LIST", "SET", "TUPLE"} ->
            LabelMap(val, ListValue(val.p.items))
      [] val.tag = "MAP"       ->
            LabelMap(val, MapRecord(val.p.pairs, <<>>))
      [] OTHER -> VError("Unsupported Cassandra type", val.tag)

(***************************************************************************)
(* Wire values the model draws its inputs from.                            *)
(***************************************************************************)
NoPayload == [none |-> TRUE]

StringTags == {"ASCII", "TEXT", "VARCHAR", "TIMEUUID", "INET", "DATE", "TIME"}
I64Tags    == {"BIGINT", "COUNTER", "VARINT", "DURATION"}
ListTags   == {"LIST", "SET", "TUPLE"}
\* the tags get_cassandra_value has no arm for (line 225)
UnmappedTags == {"UNKNOWN", "CUSTOM", "UDT"}

SeqsUpTo(S, n) == UNION {[1..k -> S] : k \in 0..n}

AUuid == <<85, 14, 132, 0, 226, 155, 65, 212, 167, 22, 68, 102, 85, 68, 0, 0>>

I64Samples == {I64Min, AsI64(-5), AsI64(0), AsI64(1), I64Max}

TimestampSamples ==
    {I64Min, I64(-1, 991665398, 684799999), ChronoMinMillis, AsI64(0),
     ChronoMaxMillis, I64(0, 8210266, 876800000), I64Max}

Payloads(tag) ==
    CASE tag \in StringTags   -> {[s |-> str] : str \in {"", "abc"}}
      [] tag \in I64Tags      -> {[i64 |-> n] : n \in I64Samples}
      [] tag = "TIMESTAMP"    -> {[i64 |-> n] : n \in TimestampSamples}
      [] tag = "BLOB"         -> {[b |-> x] : x \in {<<>>, <<0, 255>>}}
      [] tag = "UUID"         -> {[b |-> x] : x \in {AUuid, <<1, 2, 3>>, <<>>}}
      [] tag = "BOOLEAN"      -> {[t |-> x] : x \in BOOLEAN}
      [] tag = "DECIMAL"      ->
            {[unscaled |-> u, scale |-> k] : u \in {-125, 0, 5}, k \in 0..2}
      [] tag \in {"DOUBLE", "FLOAT"} -> {[f |-> x] : x \in {-1, 0, 3}}
      [] tag = "INT"          ->
            {[i32 |-> n] : n \in {-2147483647 - 1, -1000000001, -1000000000,
                                  -32769, -5, 0, 32768, 999999999,
                                  1000000000, 2147483647}}
      [] tag = "SMALL_INT"    ->
            {[i16 |-> n] : n \in {-32768, -129, -5, 0, 128, 32767}}
      [] tag = "TINY_INT"     -> {[i8 |-> n] : n \in -128..127}
      [] OTHER                -> {NoPayload}

ScalarTags == ValueType \ (ListTags \cup {"MAP"})

\* a value of a scalar tag: the getter succeeds with a payload, or fails
ScalarWires ==
    UNION {{Wire(tag, "ok", p) : p \in Payloads(tag)}
           \cup {Wire(tag, "LIB_NULL_VALUE", NoPayload)} : tag \in ScalarTags}

\* the elements collections are built from: a value that converts, one of
\* an unmapped type, one whose getter fails, one that cannot be a date
NestItems ==
    {Wire("INT", "ok", [i32 |-> 1]),
     Wire("INT", "ok", [i32 |-> 2]),
     Wire("UDT", "ok", NoPayload),
     Wire("TEXT", "LIB_NULL_VALUE", NoPayload),
     Wire("TIMESTAMP", "ok", [i64 |-> I64Max])}

\* the elements of a collection nested in a collection
InnerItems == {Wire("INT", "ok", [i32 |-> 1]), Wire("UDT", "ok", NoPayload)}

InnerLists ==
    {Wire("LIST", "ok", [items |-> sq]) :
        sq \in SeqsUpTo(InnerItems, MaxInnerItems)}

ListWires ==
    {Wire(tag, "ok", [items |-> sq]) :
        tag \in ListTags, sq \in SeqsUpTo(NestItems \cup InnerLists, MaxItems)}
    \cup {Wire(tag, "LIB_NULL_VALUE", NoPayload) : tag \in ListTags}

\* map keys: text keys, and integer keys get_str cannot read as a string
KeyWires ==
    {Wire("TEXT", "ok", [s |-> "a"]),
     Wire("TEXT", "ok", [s |-> "b"]),
     Wire("INT", "LIB_INVALID_VALUE_TYPE", [i32 |-> 1]),
     Wire("INT", "LIB_INVALID_VALUE_TYPE", [i32 |-> 2])}

MapWires ==
    {Wire("MAP", "ok", [pairs |-> sq]) :
        sq \in SeqsUpTo(KeyWires \X NestItems, MaxItems)}
    \cup {Wire("MAP", "LIB_NULL_VALUE", NoPayload)}

WireValues == ScalarWires \cup ListWires \cup MapWires

(***************************************************************************)
(* Rows (lines 94-103).                                                    *)
(***************************************************************************)
\* a column of a row: whether row.get_column(idx) succeeds, and its value
Cell(get_column, w) == [get_column |-> get_column, w |-> w]

\* lines 97-101: one column of the row as a nu value
ColumnValue(cell) ==
    IF cell.get_column = "ok"
    THEN get_cassandra_value(cell.w)
    ELSE label(cell.get_column)

\* lines 95-103: the record of a row, column by column; rc is the record
\* built from the columns before idx
RECURSIVE RowRecord(_, _, _, _)
RowRecord(cols, cells, idx, rc) ==
    IF idx > Len(cols) THEN VRecord(rc)
    ELSE LET nu_val == ColumnValue(cells[idx])
         IN  IF IsPanic(nu_val) THEN nu_val
             ELSE RowRecord(cols, cells, idx + 1,
                            RecordInsert(rc, cols[idx], nu_val))

\* what the task sends: a row's record (line 104) or the error of a failed
\* page fetch (lines 110, 119).  page and idx say which row of the result
\* set the record was built from (for an error: the page not fetched).
RowItem(page, idx, v) == [kind |-> "row", page |-> page, idx |-> idx, v |-> v]
ErrorItem(page, err)  ==
    [kind |-> "error", page |-> page, idx |-> 0, v |-> label(err)]
NoItem == [kind |-> "none", page |-> 0, idx |-> 0, v |-> NoPayload]

(***************************************************************************)
(* The inputs of the command.                                              *)
(***************************************************************************)
\* the column names the first page can report (the same name twice for
\* `SELECT a, a FROM t`)
ColumnLists == {<<"a", "b">>, <<"a", "a">>}

PlainCell == Cell("ok", Wire("INT", "ok", [i32 |-> 7]))

\* cells whose conversion does not give the column's plain value: an
\* unmapped type, a getter that fails, a column that cannot be read, a
\* UUID of the wrong length, a timestamp chrono cannot represent
OddCells ==
    {Cell("ok", Wire("UDT", "ok", NoPayload)),
     Cell("ok", Wire("TEXT", "LIB_NULL_VALUE", NoPayload)),
     Cell("LIB_INDEX_OUT_OF_BOUNDS", Wire("INT", "ok", [i32 |-> 7])),
     Cell("ok", Wire("UUID", "ok", [b |-> <<1, 2, 3>>])),
     Cell("ok", Wire("TIMESTAMP", "ok", [i64 |-> I64Max]))}

PlainRow(n) == [k \in 1..n |-> PlainCell]

\* the rows of RowSpec: every combination of cells
AllRows(n) == [1..n -> OddCells \cup {PlainCell}]

\* the rows the server yields in Spec: all columns plain, the first column
\* of an unmapped type, or the last column a timestamp out of range
PageRows(n) ==
    {PlainRow(n),
     [PlainRow(n) EXCEPT ![1] = Cell("ok", Wire("UDT", "ok", NoPayload))],
     [PlainRow(n) EXCEPT
        ![n] = Cell("ok", Wire("TIMESTAMP", "ok", [i64 |-> I64Max]))]}

RECURSIVE SumRows(_)
SumRows(ps) == IF ps = <<>> THEN 0 ELSE Head(ps) + SumRows(Tail(ps))

\* the result sets: the number of rows of every page; every page but the
\* last carries a paging state token
ResultSets ==
    {ps \in UNION {[1..n -> 0..MaxRows] : n \in 1..MaxPages} :
        SumRows(ps) <= MaxRows}

HasMorePages == result < Len(pages)

(***************************************************************************)
(* The state after construction: run() has been called.                    *)
(***************************************************************************)
Hist0 ==
    [sendFailed |-> FALSE,   \* a tx.send of line 104 returned Err
     failedPage |-> 0,       \* the page whose fetch failed (0: none)
     tokenErr   |-> FALSE,   \* paging_state_token() returned Err
     panicked   |-> FALSE,   \* the task panicked
     applied    |-> 0,       \* calls of set_paging_state_token
     sends      |-> 0,       \* calls of tx.send
     released   |-> 0,       \* times the session and cluster were dropped
     spawned    |-> FALSE]   \* tokio::spawn was called

ConvIdle == [variant |-> "none"]

\* the two queries of DuoSpec
Queries == {"A", "B"}

\* a query whose run() was not called, and the runtime with no task
NoQuery ==
    [pages |-> <<>>, pos |-> "none", fetch |-> "none", result |-> 0,
     iter |-> 0, record |-> <<>>, chan |-> <<>>, rx |-> "none",
     received |-> <<>>]

RtIdle == [thread |-> "idle", q |-> [x \in Queries |-> NoQuery]]

Init ==
    /\ pc = "req"
    /\ ret = "none"
    /\ task = "none"
    /\ pages \in ResultSets
    /\ columns = <<>>
    /\ result = 0
    /\ next_result = 0
    /\ iter = 0
    /\ record = NoItem
    /\ chan = <<>>
    /\ rx = "none"
    /\ received = <<>>
    /\ session = "none"
    /\ cluster = "none"
    /\ stmts = 0
    /\ hist = Hist0
    /\ cvIn = Wire("UNKNOWN", "ok", NoPayload)
    /\ cvOut = ConvIdle
    /\ rt = RtIdle

(***************************************************************************)
(* run(), lines 70-134.                                                    *)
(***************************************************************************)
\* `?`: return the error; the locals are dropped
ReturnErr ==
    /\ pc' = "returned"
    /\ ret' = "Err"
    /\ session' = IF session = "live" THEN "dropped" ELSE session
    /\ cluster' = IF cluster = "live" THEN "dropped" ELSE cluster
    /\ rx' = IF rx = "held" THEN "dropped" ELSE rx

\* line 72: call.req(0)?
Req ==
    /\ pc = "req"
    /\ \/ /\ pc' = "set_contact_points"
          /\ UNCHANGED <<ret, session, cluster, rx>>
       \/ ReturnErr
    /\ UNCHANGED <<task, pages, columns, result, iter, record, chan,
                   received, stmts, hist, cvIn, cvOut, next_result, rt>>

\* lines 73-75: Cluster::default(), set_contact_points(..)?
SetContactPoints ==
    /\ pc = "set_contact_points"
    /\ \/ /\ pc' = "connect"
          /\ cluster' = "live"
          /\ UNCHANGED <<ret, session, rx>>
       \/ ReturnErr
    /\ UNCHANGED <<task, pages, columns, result, iter, record, chan,
                   received, stmts, hist, cvIn, cvOut, next_result, rt>>

\* line 76: cluster.connect().await?
Connect ==
    /\ pc = "connect"
    /\ \/ /\ pc' = "set_paging_size"
          /\ session' = "live"
          /\ UNCHANGED <<ret, cluster, rx>>
       \/ ReturnErr
    /\ UNCHANGED <<task, pages, columns, result, iter, record, chan,
                   received, stmts, hist, cvIn, cvOut, next_result, rt>>

\* lines 77-78: session.statement(..), set_paging_size(1024)?
SetPagingSize ==
    /\ pc = "set_paging_size"
    /\ \/ /\ pc' = "execute"
          /\ UNCHANGED <<ret, session, cluster, rx>>
       \/ ReturnErr
    /\ UNCHANGED <<task, pages, columns, result, iter, record, chan,
                   received, stmts, hist, cvIn, cvOut, next_result, rt>>

\* lines 79-84: execute_with_payloads(&statement).await?, then sync_channel
Execute ==
    /\ pc = "execute"
    /\ stmts' = stmts + 1
    /\ \/ /\ pc' = "column_name"
          /\ result' = 1
          /\ rx' = "held"
          /\ UNCHANGED <<ret, session, cluster>>
       \/ /\ ReturnErr
          /\ UNCHANGED result
    /\ UNCHANGED <<task, pages, columns, iter, record, chan, received,
                   hist, cvIn, cvOut, next_result, rt>>

\* ColumnNames with the task spawned before the names are read
ColumnNames_SpawnFirst ==
    /\ pc = "column_name"
    /\ \/ /\ pc' = "return"
          /\ columns' \in ColumnLists
          /\ UNCHANGED <<ret, session, cluster, rx>>
       \/ /\ pc' = "returned"
          /\ ret' = "Err"
          /\ rx' = "dropped"
          /\ UNCHANGED <<columns, session, cluster>>
    /\ task' = "iter"
    /\ hist' = [hist EXCEPT !.spawned = TRUE]
    /\ UNCHANGED <<pages, result, iter, record, chan, received, stmts,
                   cvIn, cvOut, next_result, rt>>

\* lines 86-89: the column names, or the first error among them
ColumnNames ==
    /\ pc = "column_name"
    /\ \/ /\ pc' = "spawn"
          /\ columns' \in ColumnLists
          /\ UNCHANGED <<ret, session, cluster, rx>>
       \/ /\ ReturnErr
          /\ UNCHANGED columns
    /\ UNCHANGED <<task, pages, result, iter, record, chan, received,
                   stmts, hist, cvIn, cvOut, next_result, rt>>

\* line 91: tokio::spawn; the task owns tx, result, statement, session,
\* cluster and columns from here on
Spawn ==
    /\ pc = "spawn"
    /\ pc' = "return"
    /\ task' = "iter"
    /\ hist' = [hist EXCEPT !.spawned = TRUE]
    /\ UNCHANGED <<ret, pages, columns, result, iter, record, chan, rx,
                   received, session, cluster, stmts, cvIn, cvOut,
                   next_result, rt>>

\* lines 130-133: the stream over rx goes to the caller
ReturnStream ==
    /\ pc = "return"
    /\ pc' = "returned"
    /\ ret' = "Ok"
    /\ rx' = "open"
    /\ UNCHANGED <<task, pages, columns, result, iter, record, chan,
                   received, session, cluster, stmts, hist,
                   cvIn, cvOut, next_result, rt>>

(***************************************************************************)
(* The paging task, lines 91-129.                                          *)
(***************************************************************************)
\* the receiving end exists: run() or the consumer holds it
RxAlive == rx \in {"held", "open"}

\* lines 94-103: iter.next() yields a row and its record is built; a panic
\* of a conversion unwinds the task, which drops all it owns
TaskRow ==
    /\ task = "iter"
    /\ iter < pages[result]
    /\ iter' = iter + 1
    /\ \E cells \in PageRows(Len(columns)) :
          LET rc == RowRecord(columns, cells, 1, <<>>)
          IN  IF IsPanic(rc)
              THEN /\ task' = "panicked"
                   /\ session' = "dropped"
                   /\ cluster' = "dropped"
                   /\ hist' = [hist EXCEPT !.panicked = TRUE,
                                           !.released = @ + 1]
                   /\ UNCHANGED record
              ELSE /\ task' = "send"
                   /\ record' = RowItem(result, iter + 1, rc)
                   /\ UNCHANGED <<session, cluster, hist>>
    /\ UNCHANGED <<pc, ret, pages, columns, result, chan, rx, received,
                   stmts, cvIn, cvOut, next_result, rt>>

\* line 94: iter.next() is None, the page is exhausted
TaskPageEnd ==
    /\ task = "iter"
    /\ iter >= pages[result]
    /\ task' = "token"
    /\ UNCHANGED <<pc, ret, pages, columns, result, iter, record, chan, rx,
                   received, session, cluster, stmts, hist,
                   cvIn, cvOut, next_result, rt>>

\* TaskSendOk on a channel without a bound (channel() for sync_channel())
TaskSendOk_Unbounded ==
    /\ task = "send"
    /\ RxAlive
    /\ chan' = Append(chan, record)
    /\ record' = NoItem
    /\ task' = "iter"
    /\ hist' = [hist EXCEPT !.sends = @ + 1]
    /\ UNCHANGED <<pc, ret, pages, columns, result, iter, rx, received,
                   session, cluster, stmts, cvIn, cvOut, next_result, rt>>

\* line 104: tx.send(record) returns Ok; it blocks while the buffer is full
TaskSendOk ==
    /\ task = "send"
    /\ RxAlive
    /\ Len(chan) < ChannelCapacity
    /\ chan' = Append(chan, record)
    /\ record' = NoItem
    /\ task' = "iter"
    /\ hist' = [hist EXCEPT !.sends = @ + 1]
    /\ UNCHANGED <<pc, ret, pages, columns, result, iter, rx, received,
                   session, cluster, stmts, cvIn, cvOut, next_result, rt>>

\* lines 104-106: tx.send(record) returns Err, `break` leaves the `while`
\* of line 94; the task goes on at line 108
TaskSendErr ==
    /\ task = "send"
    /\ rx = "dropped"
    /\ record' = NoItem
    /\ task' = "token"
    /\ hist' = [hist EXCEPT !.sends = @ + 1, !.sendFailed = TRUE]
    /\ UNCHANGED <<pc, ret, pages, columns, result, iter, chan, rx,
                   received, session, cluster, stmts, cvIn, cvOut,
                   next_result, rt>>

\* TaskToken that re-executes the statement without applying the token
TaskToken_SkipApply ==
    /\ task = "token"
    /\ \/ /\ HasMorePages
          /\ task' = "execute"
          /\ UNCHANGED hist
       \/ /\ ~HasMorePages
          /\ task' = "drop"
          /\ UNCHANGED hist
       \/ /\ task' = "drop"
          /\ hist' = [hist EXCEPT !.tokenErr = TRUE]
    /\ UNCHANGED <<pc, ret, pages, columns, result, iter, record, chan, rx,
                   received, session, cluster, stmts, cvIn, cvOut,
                   next_result, rt>>

\* line 108: result.paging_state_token(): Ok(Some(token)) while the server
\* has more pages, Ok(None) on the last page, or Err
TaskToken ==
    /\ task = "token"
    /\ \/ /\ HasMorePages
          /\ task' = "set_token"
          /\ UNCHANGED hist
       \/ /\ ~HasMorePages
          /\ task' = "drop"
          /\ UNCHANGED hist
       \/ /\ task' = "drop"
          /\ hist' = [hist EXCEPT !.tokenErr = TRUE]
    /\ UNCHANGED <<pc, ret, pages, columns, result, iter, record, chan, rx,
                   received, session, cluster, stmts, cvIn, cvOut,
                   next_result, rt>>

\* lines 109-112: statement.set_paging_state_token(&token)
TaskSetToken ==
    /\ task = "set_token"
    /\ \/ /\ task' = "execute"
          /\ hist' = [hist EXCEPT !.applied = @ + 1]
          /\ UNCHANGED record
       \/ /\ task' = "send_err"
          /\ record' = ErrorItem(result + 1, "LIB_BAD_PARAMS")
          /\ hist' = [hist EXCEPT !.applied = @ + 1,
                                  !.failedPage = result + 1]
    /\ UNCHANGED <<pc, ret, pages, columns, result, iter, chan, rx,
                   received, session, cluster, stmts, cvIn, cvOut,
                   next_result, rt>>

\* lines 113-114, 118-121: session.execute_with_payloads(&statement).await;
\* on Ok the new page is bound to next_result while `result` and its row
\* iterator are still there
TaskExecute ==
    /\ task = "execute"
    /\ stmts' = stmts + 1
    /\ \/ /\ next_result' = result + 1
          /\ task' = "install"
          /\ UNCHANGED <<record, hist>>
       \/ /\ task' = "send_err"
          /\ record' = ErrorItem(result + 1, "LIB_REQUEST_TIMED_OUT")
          /\ hist' = [hist EXCEPT !.failedPage = result + 1]
          /\ UNCHANGED next_result
    /\ UNCHANGED <<pc, ret, pages, columns, result, iter, chan, rx, received,
                   session, cluster, cvIn, cvOut, rt>>

\* lines 115-116 and 93: drop(iter); result = next_result (the assignment
\* drops the page `result` held); the loop goes round and result.iter()
\* starts at the first row of the new page
TaskInstall ==
    /\ task = "install"
    /\ result' = next_result
    /\ next_result' = 0
    /\ iter' = 0
    /\ task' = "iter"
    /\ UNCHANGED <<pc, ret, pages, columns, record, chan, rx, received,
                   session, cluster, stmts, hist, cvIn, cvOut, rt>>

\* TaskSendError without the `break`: the loop goes round again
TaskSendError_NoBreak ==
    /\ task = "send_err"
    /\ \/ /\ RxAlive
          /\ Len(chan) < ChannelCapacity
          /\ chan' = Append(chan, record)
       \/ /\ rx = "dropped"
          /\ UNCHANGED chan
    /\ record' = NoItem
    /\ task' = "iter"
    /\ hist' = [hist EXCEPT !.sends = @ + 1]
    /\ UNCHANGED <<pc, ret, pages, columns, result, iter, rx, received,
                   session, cluster, stmts, cvIn, cvOut, next_result, rt>>

\* lines 110-111, 119-120: `let _ = tx.send(error)`, then `break`
TaskSendError ==
    /\ task = "send_err"
    /\ \/ /\ RxAlive
          /\ Len(chan) < ChannelCapacity
          /\ chan' = Append(chan, record)
       \/ /\ rx = "dropped"
          /\ UNCHANGED chan
    /\ record' = NoItem
    /\ task' = "drop"
    /\ hist' = [hist EXCEPT !.sends = @ + 1]
    /\ UNCHANGED <<pc, ret, pages, columns, result, iter, rx, received,
                   session, cluster, stmts, cvIn, cvOut, next_result, rt>>

\* TaskDrop that keeps the session and the cluster (a leaked handle)
TaskDrop_Leak ==
    /\ task = "drop"
    /\ task' = "done"
    /\ UNCHANGED <<pc, ret, pages, columns, result, iter, record, chan, rx,
                   received, session, cluster, stmts, hist, cvIn, cvOut,
                   next_result, rt>>

\* lines 127-129: drop(session), drop(cluster); the task ends and tx goes
TaskDrop ==
    /\ task = "drop"
    /\ task' = "done"
    /\ session' = "dropped"
    /\ cluster' = "dropped"
    /\ hist' = [hist EXCEPT !.released = @ + 1]
    /\ UNCHANGED <<pc, ret, pages, columns, result, iter, record, chan, rx,
                   received, stmts, cvIn, cvOut, next_result, rt>>

TxDropped == task \in {"done", "panicked"}

(***************************************************************************)
(* The consumer of the ListStream (rx.into_iter(), line 131).              *)
(***************************************************************************)
Recv ==
    /\ rx = "open"
    /\ chan # <<>>
    /\ received' = Append(received, Head(chan))
    /\ chan' = Tail(chan)
    /\ UNCHANGED <<pc, ret, task, pages, columns, result, iter, record, rx,
                   session, cluster, stmts, hist, cvIn, cvOut,
                   next_result, rt>>

\* the buffer is empty and the sender is gone: the iterator ends
RecvEnd ==
    /\ rx = "open"
    /\ chan = <<>>
    /\ TxDropped
    /\ rx' = "eos"
    /\ UNCHANGED <<pc, ret, task, pages, columns, result, iter, record, chan,
                   received, session, cluster, stmts, hist,
                   cvIn, cvOut, next_result, rt>>

\* the consumer stops early and drops the stream, and what it buffers
ConsumerDrop ==
    /\ rx = "open"
    /\ rx' = "dropped"
    /\ chan' = <<>>
    /\ UNCHANGED <<pc, ret, task, pages, columns, result, iter, record,
                   received, session, cluster, stmts, hist,
                   cvIn, cvOut, next_result, rt>>

RunStep ==
    \/ Req
    \/ SetContactPoints
    \/ Connect
    \/ SetPagingSize
    \/ Execute
    \/ ColumnNames
    \/ Spawn
    \/ ReturnStream

TaskStep ==
    \/ TaskRow
    \/ TaskPageEnd
    \/ TaskSendOk
    \/ TaskSendErr
    \/ TaskToken
    \/ TaskSetToken
    \/ TaskExecute
    \/ TaskInstall
    \/ TaskSendError
    \/ TaskDrop

ConsumerStep ==
    \/ Recv
    \/ RecvEnd
    \/ ConsumerDrop

Next == RunStep \/ TaskStep \/ ConsumerStep

Spec == Init /\ [][Next]_vars

\* the runtime runs run() and the task whenever they can take a step, and
\* the consumer takes what the stream holds; nothing makes it drop
LiveSpec ==
    /\ Spec
    /\ WF_vars(RunStep)
    /\ WF_vars(TaskStep)
    /\ WF_vars(Recv)
    /\ WF_vars(RecvEnd)

(***************************************************************************)
(* ConvSpec: get_cassandra_value on one wire value.                        *)
(***************************************************************************)
ConvInit ==
    /\ pc = "conv"
    /\ ret = "none"
    /\ task = "none"
    /\ pages = <<>>
    /\ columns = <<>>
    /\ result = 0
    /\ next_result = 0
    /\ iter = 0
    /\ record = NoItem
    /\ chan = <<>>
    /\ rx = "none"
    /\ received = <<>>
    /\ session = "none"
    /\ cluster = "none"
    /\ stmts = 0
    /\ hist = Hist0
    /\ cvIn \in WireValues
    /\ cvOut = ConvIdle
    /\ rt = RtIdle

Convert ==
    /\ pc = "conv"
    /\ cvOut = ConvIdle
    /\ cvOut' = get_cassandra_value(cvIn)
    /\ UNCHANGED <<cvIn, pipeVars, rt>>

ConvSpec == ConvInit /\ [][Convert]_vars

(***************************************************************************)
(* RowSpec: lines 95-103 on one row of a result with the given columns.    *)
(***************************************************************************)
RowInit ==
    /\ pc = "row"
    /\ ret = "none"
    /\ task = "none"
    /\ pages = <<>>
    /\ columns \in ColumnLists
    /\ result = 0
    /\ next_result = 0
    /\ iter = 0
    /\ record = NoItem
    /\ chan = <<>>
    /\ rx = "none"
    /\ received = <<>>
    /\ session = "none"
    /\ cluster = "none"
    /\ stmts = 0
    /\ hist = Hist0
    /\ cvIn \in AllRows(Len(columns))
    /\ cvOut = ConvIdle
    /\ rt = RtIdle

BuildRow ==
    /\ pc = "row"
    /\ cvOut = ConvIdle
    /\ cvOut' = RowRecord(columns, cvIn, 1, <<>>)
    /\ UNCHANGED <<cvIn, pipeVars, rt>>

RowSpec == RowInit /\ [][BuildRow]_vars

(***************************************************************************)
(* DuoSpec: two calls of the command at the same time.  Every call runs    *)
(* run() on its own thread (Handle::block_on, line 66); the tasks of line  *)
(* 91 all go to the runtime of main(), a current_thread runtime (line 257) *)
(* that polls one task at a time on one thread.  A task keeps that thread  *)
(* until it returns Pending at the `.await` of line 113 or ends; tx.send   *)
(* is std::sync::mpsc's blocking send (lines 1, 104), which waits on the   *)
(* thread.  The position of a query's task:                                *)
(*   none     run() was not called                                         *)
(*   spawned  spawned at line 91, not polled yet                           *)
(*   iter, send, token, send_err   at that line, on the runtime thread     *)
(*   await    Pending at line 113, off the thread                          *)
(*   woken    the fetch completed, the task waits to be polled again       *)
(*   done     ended, tx dropped                                            *)
(***************************************************************************)
\* the result sets of the two queries
DuoResultSets ==
    {ps \in ResultSets :
        /\ Len(ps) <= 2
        /\ SumRows(ps) \in {1, MaxRows}
        /\ \A k \in 1..Len(ps) : ps[k] > 0}

QueryOf(ps) == [NoQuery EXCEPT !.pages = ps]

DuoInit ==
    /\ pc = "duo"
    /\ ret = "none"
    /\ task = "none"
    /\ pages = <<>>
    /\ columns = <<>>
    /\ result = 0
    /\ next_result = 0
    /\ iter = 0
    /\ record = NoItem
    /\ chan = <<>>
    /\ rx = "none"
    /\ received = <<>>
    /\ session = "none"
    /\ cluster = "none"
    /\ stmts = 0
    /\ hist = Hist0
    /\ cvIn = Wire("UNKNOWN", "ok", NoPayload)
    /\ cvOut = ConvIdle
    /\ \E pa, pb \in DuoResultSets :
          rt = [thread |-> "idle",
                q |-> [x \in Queries |->
                          QueryOf(IF x = "A" THEN pa ELSE pb)]]

\* the step of query x: its new state, and who holds the runtime thread
DuoSet(x, thread, new) ==
    /\ pc = "duo"
    /\ rt' = [thread |-> thread, q |-> [rt.q EXCEPT ![x] = new]]
    /\ UNCHANGED <<cvIn, cvOut, pipeVars>>

\* lines 70-134 with no failure: run() fetches the first page, spawns the
\* task and returns the stream
DuoRun(x) ==
    /\ rt.q[x].pos = "none"
    /\ DuoSet(x, rt.thread,
              [rt.q[x] EXCEPT !.pos = "spawned", !.result = 1,
                              !.rx = "open"])

\* the runtime thread is free and polls a task that can run: a task just
\* spawned starts at line 92; a woken one goes on after line 113
DuoPoll(x) ==
    /\ rt.thread = "idle"
    /\ \/ /\ rt.q[x].pos = "spawned"
          /\ DuoSet(x, x, [rt.q[x] EXCEPT !.pos = "iter"])
       \/ /\ rt.q[x].pos = "woken"
          /\ rt.q[x].fetch = "ok"
          /\ DuoSet(x, x, [rt.q[x] EXCEPT !.pos = "iter", !.fetch = "none",
                                          !.result = @ + 1, !.iter = 0])
       \/ /\ rt.q[x].pos = "woken"
          /\ rt.q[x].fetch = "err"
          /\ DuoSet(x, x, [rt.q[x] EXCEPT
                             !.pos = "send_err", !.fetch = "none",
                             !.record = <<"error", rt.q[x].result + 1>>])

\* lines 94-103: the next row's record
DuoRow(x) ==
    /\ rt.thread = x
    /\ rt.q[x].pos = "iter"
    /\ rt.q[x].iter < rt.q[x].pages[rt.q[x].result]
    /\ DuoSet(x, x, [rt.q[x] EXCEPT
                       !.pos = "send", !.iter = @ + 1,
                       !.record = <<rt.q[x].result, rt.q[x].iter + 1>>])

\* line 94: the page is exhausted
DuoPageEnd(x) ==
    /\ rt.thread = x
    /\ rt.q[x].pos = "iter"
    /\ rt.q[x].iter >= rt.q[x].pages[rt.q[x].result]
    /\ DuoSet(x, x, [rt.q[x] EXCEPT !.pos = "token"])

\* lines 104-106: tx.send(record); while the buffer is full the call does
\* not return and the task stays on the thread; Err breaks the `while`
DuoSend(x) ==
    /\ rt.thread = x
    /\ rt.q[x].pos = "send"
    /\ \/ /\ rt.q[x].rx = "open"
          /\ Len(rt.q[x].chan) < ChannelCapacity
          /\ DuoSet(x, x, [rt.q[x] EXCEPT
                             !.pos = "iter", !.record = <<>>,
                             !.chan = Append(@, rt.q[x].record)])
       \/ /\ rt.q[x].rx = "dropped"
          /\ DuoSet(x, x, [rt.q[x] EXCEPT !.pos = "token", !.record = <<>>])

\* lines 108-129: with a token, apply it and execute the statement; the
\* `.await` of line 113 returns Pending and frees the thread.  Without a
\* token, or when the token cannot be applied and the error was sent, the
\* task ends.
DuoToken(x) ==
    /\ rt.thread = x
    /\ rt.q[x].pos = "token"
    /\ \/ /\ rt.q[x].result < Len(rt.q[x].pages)
          /\ DuoSet(x, "idle", [rt.q[x] EXCEPT !.pos = "await"])
       \/ /\ rt.q[x].result < Len(rt.q[x].pages)
          /\ DuoSet(x, x, [rt.q[x] EXCEPT
                             !.pos = "send_err",
                             !.record = <<"error", rt.q[x].result + 1>>])
       \/ /\ rt.q[x].result >= Len(rt.q[x].pages)
          /\ DuoSet(x, "idle", [rt.q[x] EXCEPT !.pos = "done"])

\* the driver completes the fetch of line 113 and wakes the task
DuoFetched(x) ==
    /\ rt.q[x].pos = "await"
    /\ \E outcome \in {"ok", "err"} :
          DuoSet(x, rt.thread,
                 [rt.q[x] EXCEPT !.pos = "woken", !.fetch = outcome])

\* lines 110-111, 119-120: `let _ = tx.send(error)`, break, and the end of
\* the task (lines 127-129)
DuoSendError(x) ==
    /\ rt.thread = x
    /\ rt.q[x].pos = "send_err"
    /\ \/ /\ rt.q[x].rx = "open"
          /\ Len(rt.q[x].chan) < ChannelCapacity
          /\ DuoSet(x, "idle", [rt.q[x] EXCEPT
                                  !.pos = "done", !.record = <<>>,
                                  !.chan = Append(@, rt.q[x].record)])
       \/ /\ rt.q[x].rx = "dropped"
          /\ DuoSet(x, "idle", [rt.q[x] EXCEPT
                                  !.pos = "done", !.record = <<>>])

\* the consumer of query x takes a value from its stream
DuoRecv(x) ==
    /\ rt.q[x].rx = "open"
    /\ rt.q[x].chan # <<>>
    /\ DuoSet(x, rt.thread,
              [rt.q[x] EXCEPT !.chan = Tail(@),
                              !.received = Append(@, Head(rt.q[x].chan))])

\* the buffer is empty and the sender is gone: the stream ends
DuoRecvEnd(x) ==
    /\ rt.q[x].rx = "open"
    /\ rt.q[x].chan = <<>>
    /\ rt.q[x].pos = "done"
    /\ DuoSet(x, rt.thread, [rt.q[x] EXCEPT !.rx = "eos"])

\* the consumer of query x drops its stream
DuoConsumerDrop(x) ==
    /\ rt.q[x].rx = "open"
    /\ DuoSet(x, rt.thread, [rt.q[x] EXCEPT !.rx = "dropped", !.chan = <<>>])

DuoTaskStep(x) ==
    \/ DuoPoll(x)
    \/ DuoRow(x)
    \/ DuoPageEnd(x)
    \/ DuoSend(x)
    \/ DuoToken(x)
    \/ DuoSendError(x)

DuoNext ==
    \E x \in Queries :
        \/ DuoRun(x)
        \/ DuoTaskStep(x)
        \/ DuoFetched(x)
        \/ DuoRecv(x)
        \/ DuoRecvEnd(x)
        \/ DuoConsumerDrop(x)

DuoSpec == DuoInit /\ [][DuoNext]_vars

\* both calls are made, the runtime polls a task whenever one can run, the
\* driver answers every fetch, and the consumer of B keeps draining; the
\* consumer of A is free to do nothing
DuoLiveSpec ==
    /\ DuoSpec
    /\ \A x \in Queries :
          /\ WF_vars(DuoRun(x))
          /\ WF_vars(DuoTaskStep(x))
          /\ WF_vars(DuoFetched(x))
    /\ WF_vars(DuoRecv("B"))
    /\ WF_vars(DuoRecvEnd("B"))

(***************************************************************************)
(* The rows of the result set, in page order and then in row order.        *)
(***************************************************************************)
RECURSIVE RowIdsFrom(_, _, _)
RowIdsFrom(ps, page, idx) ==
    IF page > Len(ps) THEN <<>>
    ELSE IF idx > ps[page] THEN RowIdsFrom(ps, page + 1, 1)
         ELSE <<(<<page, idx>>)>> \o RowIdsFrom(ps, page, idx + 1)

\* the rows of pages 1..n
RowIdsUpTo(n) == RowIdsFrom(SubSeq(pages, 1, n), 1, 1)
AllRowIds == RowIdsUpTo(Len(pages))

IdsOf(items) == [k \in 1..Len(items) |-> <<items[k].page, items[k].idx>>]
OnlyRows(items) == \A k \in 1..Len(items) : items[k].kind = "row"

Drained == rx = "eos"

(***************************************************************************)
(* The claims.                                                             *)
(***************************************************************************)

\* C1: a consumer that drained the stream to its end, no page fetch having
\* failed, has received exactly the rows of the result set, in page order
\* and then in row order, none duplicated, skipped or reordered.
C1_RowsInOrder ==
    (Drained /\ hist.failedPage = 0)
        => /\ OnlyRows(received)
           /\ IdsOf(received) = AllRowIds

\* C1, the case: the stream of a result set of several rows over several
\* pages was drained to its end and is short of rows
C1_Truncated ==
    /\ Drained
    /\ hist.failedPage = 0
    /\ Len(pages) > 1
    /\ Len(received) > 0
    /\ Len(received) < Len(AllRowIds)

\* C2: from a failed send on, the task fetches no further page (it applies
\* no paging token and executes no statement) and sends nothing more.
C2_NoFetchAfterFailedSend ==
    [][hist.sendFailed =>
          /\ stmts' = stmts
          /\ hist'.applied = hist.applied
          /\ hist'.sends = hist.sends]_vars

\* C2, the case: a send has failed and the task executed the statement again
C2_FetchedAfterFailedSend ==
    /\ hist.sendFailed
    /\ rx = "dropped"
    /\ result > 1
    /\ task = "iter"

\* everything the task has built to send and that still exists somewhere
InFlight == received \o chan \o (IF record = NoItem THEN <<>> ELSE <<record>>)

ErrorsIn(items) == {k \in 1..Len(items) : items[k].kind = "error"}

\* C3: once the fetch of page k has failed the task only sends the error
\* and ends (no retry, no further statement); nothing it built comes from
\* page k or later; and a consumer that drained the stream has received
\* the rows of pages 1..k-1 in order, then exactly one error value, last.
C3_PartialFailure ==
    LET k == hist.failedPage
        n == Len(received)
    IN  k # 0 =>
          /\ task \in {"send_err", "drop", "done"}
          /\ stmts <= k
          /\ \A j \in 1..Len(InFlight) :
                InFlight[j].kind = "row" => InFlight[j].page < k
          /\ Cardinality(ErrorsIn(InFlight)) <= 1
          /\ Drained =>
                /\ n = Len(RowIdsUpTo(k - 1)) + 1
                /\ OnlyRows(SubSeq(received, 1, n - 1))
                /\ IdsOf(SubSeq(received, 1, n - 1)) = RowIdsUpTo(k - 1)
                /\ received[n] = ErrorItem(k, received[n].v.label)
                /\ IsError(received[n].v)

\* C3, the case: the fetch of the third page failed after two pages with
\* rows, and the consumer drained the stream
C3_ThirdPageFailed ==
    /\ Drained
    /\ hist.failedPage = 3
    /\ pages[1] > 0
    /\ pages[2] > 0
    /\ Len(received) = pages[1] + pages[2] + 1

\* the task is in a send on a full buffer whose receiving end exists
Blocked ==
    /\ task \in {"send", "send_err"}
    /\ RxAlive
    /\ Len(chan) = ChannelCapacity

\* C4: the records sent and not yet received never exceed the channel's
\* capacity, and while the task is in a send on a full channel nothing of
\* the task moves (no row is converted, no page fetched, nothing sent): the
\* only steps are the consumer's.
C4_Backpressure ==
    /\ [](Len(chan) <= ChannelCapacity)
    /\ [][Blocked =>
             /\ task' = task
             /\ record' = record
             /\ iter' = iter
             /\ result' = result
             /\ stmts' = stmts
             /\ hist' = hist]_vars

\* C4, the case: the channel is full and the task waits in its send
C4_ProducerBlocked ==
    /\ Blocked
    /\ task = "send"
    /\ rx = "open"

\* C5: every record sent has as many values as there are column names
C5_RecordWidth ==
    \A j \in 1..Len(InFlight) :
        InFlight[j].kind = "row"
            => Len(InFlight[j].v.cols) = Len(columns)

\* C5, the case: a record was received that is short of a column
C5_ShortRecord ==
    \E j \in 1..Len(received) :
        /\ received[j].kind = "row"
        /\ Len(received[j].v.cols) < Len(columns)

\* C6: a value that fails to convert never ends the task
C6_ConversionNeverEndsTask == ~hist.panicked /\ task # "panicked"

\* C6, the case: a conversion ended the task and the consumer saw the
\* stream end short of rows
C6_TaskEndedByConversion ==
    /\ task = "panicked"
    /\ Drained
    /\ Len(received) < Len(AllRowIds)

\* C7: when run() returns an error nothing was sent, no task was spawned,
\* no stream exists, at most the initial statement was executed, and
\* nothing happens afterwards.
C7_SetupFailure ==
    ret = "Err" =>
        /\ pc = "returned"
        /\ task = "none"
        /\ ~hist.spawned
        /\ hist.sends = 0
        /\ chan = <<>>
        /\ received = <<>>
        /\ rx \in {"none", "dropped"}
        /\ stmts <= 1
        /\ hist.applied = 0
        /\ session # "live"
        /\ cluster # "live"
        /\ ~ENABLED Next

\* C7, the case: reading a column name failed after the statement had run
C7_ColumnNameFailed ==
    /\ ret = "Err"
    /\ result = 1
    /\ stmts = 1
    /\ rx = "dropped"

\* C8: the session and cluster are released at most once; a spawned task
\* ends, with both released; and unless the consumer drops the stream it
\* sees the stream end having received everything that was sent.
C8_Termination ==
    /\ [](hist.released <= 1)
    /\ hist.spawned ~>
          (TxDropped /\ hist.released = 1
             /\ session = "dropped" /\ cluster = "dropped")
    /\ hist.spawned ~>
          (rx = "dropped"
             \/ (Drained /\ TxDropped /\ Len(received) = hist.sends))

\* C8, the case: a task that fetched a further page has ended, the session
\* is released and the consumer saw the end of the stream
C8_DrainedToEnd ==
    /\ Drained
    /\ task = "done"
    /\ result > 1
    /\ hist.released = 1
    /\ Len(received) > 1

\* C9: a column of an unmapped type is an "Unsupported type" error in the
\* row's record, which has all its columns, the others as they convert.
C9_UnsupportedColumn ==
    cvOut # ConvIdle =>
        \A idx \in 1..Len(columns) :
            (cvIn[idx].get_column = "ok"
               /\ cvIn[idx].w.tag \in UnmappedTags) =>
                /\ cvOut.variant = "Record"
                /\ Len(cvOut.cols) = Len(columns)
                /\ IsError(cvOut.cols[idx].val)
                /\ cvOut.cols[idx].val.msg
                      \in {"Unsupported type", "Unsupported Cassandra type"}
                /\ \A j \in 1..Len(columns) :
                      j # idx => cvOut.cols[j].val = ColumnValue(cvIn[j])

\* C9, the case: the record of a row with a column of an unmapped type
\* was built
C9_UnsupportedBuilt ==
    /\ pc = "row"
    /\ cvOut # ConvIdle
    /\ \E idx \in 1..Len(columns) : cvIn[idx].w.tag \in UnmappedTags

\* the mapping table of C10
ClaimedVariant(tag) ==
    CASE tag \in {"BIGINT", "INT", "SMALL_INT", "TINY_INT", "COUNTER"}
            -> "Int64"
      [] tag \in {"ASCII", "TEXT", "VARCHAR"} -> "String"
      [] tag = "BLOB" -> "Bytes"
      [] tag = "TIMESTAMP" -> "Timestamp"
      [] tag = "BOOLEAN" -> "Boolean"
      [] tag \in {"DOUBLE", "FLOAT"} -> "Float64"
      [] tag = "DURATION" -> "Duration"
      [] tag \in {"UUID", "TIMEUUID"} -> "String"
      [] tag \in {"DECIMAL", "VARINT"} -> "String"
      [] OTHER -> "any"

\* C10: a value that converts has the variant the mapping table gives its
\* type tag
C10_MappingTable ==
    (/\ pc = "conv"
     /\ cvOut # ConvIdle
     /\ ~IsError(cvOut)
     /\ ~IsPanic(cvOut)
     /\ ClaimedVariant(cvIn.tag) # "any")
        => cvOut.variant = ClaimedVariant(cvIn.tag)

\* C10, the case: a VARINT value was converted
C10_VarintConverted ==
    /\ pc = "conv"
    /\ cvIn.tag = "VARINT"
    /\ cvIn.get = "ok"
    /\ cvOut # ConvIdle

\* the string a map key is claimed to become: the text of a textual key,
\* the decimal digits of an integer key
KeyText(key) ==
    IF key.tag \in StringTags THEN key.p.s ELSE NatToString(key.p.i32)

PairwiseDistinct(sq) ==
    \A j, k \in 1..Len(sq) : j # k => sq[j] # sq[k]

\* C11: a MAP whose keys are pairwise distinct converts to a record with
\* one entry per pair, in order, the entry's key the string of the wire key
\* and its value the conversion of the wire value.
C11_MapEntries ==
    (/\ pc = "conv"
     /\ cvOut # ConvIdle
     /\ cvIn.tag = "MAP"
     /\ cvIn.get = "ok"
     /\ PairwiseDistinct([k \in 1..Len(cvIn.p.pairs) |-> cvIn.p.pairs[k][1]]))
        => cvOut = VRecord([k \in 1..Len(cvIn.p.pairs) |->
                              [col |-> KeyText(cvIn.p.pairs[k][1]),
                               val |-> get_cassandra_value(
                                          cvIn.p.pairs[k][2])]])

\* C11, the case: a map of two pairs with the distinct integer keys 1 and
\* 2 was converted and the record holds one entry, under "<error>"
C11_KeysMerged ==
    /\ pc = "conv"
    /\ cvIn.tag = "MAP"
    /\ cvIn.get = "ok"
    /\ Len(cvIn.p.pairs) = 2
    /\ cvIn.p.pairs[1][1].tag = "INT"
    /\ cvIn.p.pairs[2][1].tag = "INT"
    /\ cvIn.p.pairs[1][1] # cvIn.p.pairs[2][1]
    /\ cvOut.variant = "Record"
    /\ Len(cvOut.cols) = 1
    /\ cvOut.cols[1].col = "<error>"

\* C12: a statement is executed again only from line 113, with a paging
\* token on the cursor; line 113 is reached only by a successful
\* set_paging_state_token and left only by the execution; a cursor without
\* a token takes the task to its end with no execution and nothing sent,
\* and a task that ended with no failed fetch has built no error value.
C12_PagingHandshake ==
    /\ [][/\ (stmts' # stmts /\ stmts > 0)
                => (task = "execute" /\ HasMorePages)
          /\ (task' = "execute" /\ task # "execute")
                => /\ task = "set_token"
                   /\ HasMorePages
                   /\ hist'.applied = hist.applied + 1
                   /\ hist'.failedPage = 0
          /\ (task = "execute" /\ task' # "execute")
                => stmts' = stmts + 1
          /\ (task = "token" /\ task' # "token" /\ ~HasMorePages)
                => /\ task' = "drop"
                   /\ stmts' = stmts
                   /\ hist'.sends = hist.sends
                   /\ chan' = chan
          /\ task = "drop"
                => (stmts' = stmts /\ hist'.sends = hist.sends)]_vars
    /\ []((task \in {"drop", "done"} /\ hist.failedPage = 0)
            => ErrorsIn(InFlight) = {})

\* C12, the case: every page was fetched, each further one after its token
\* was applied, and the last page, without a token, ended the task
C12_AllPagesFetched ==
    /\ task = "done"
    /\ Len(pages) > 1
    /\ result = Len(pages)
    /\ stmts = result
    /\ hist.applied = result - 1
    /\ hist.failedPage = 0
    /\ ~hist.tokenErr

\* C13: a paging token is applied, the statement executed again and the
\* cursor replaced only when the row iterator has yielded every row of the
\* current page.
C13_NoFetchAhead ==
    [][(\/ hist'.applied # hist.applied
        \/ (stmts' # stmts /\ stmts > 0)
        \/ (result' # result /\ result > 0))
          => iter = pages[result]]_vars

\* C13, the case: the next page was fetched while the row iterator had
\* rows of the current page left
C13_FetchedEarly ==
    /\ task = "install"
    /\ next_result = result + 1
    /\ iter < pages[result]

\* the page `result` holds exists from line 79 until run() returns the
\* error of line 89 or the task ends
CursorLive == result > 0 /\ ret # "Err" /\ ~TxDropped

LiveCursors ==
    (IF CursorLive THEN 1 ELSE 0) + (IF next_result > 0 THEN 1 ELSE 0)

\* C14: the task never holds two pages at once
C14_OneCursor == LiveCursors <= 1

\* C14, the case: every row of the page was sent, the next page is bound
\* to next_result and `result` still holds the page before it
C14_TwoCursors ==
    /\ task = "install"
    /\ CursorLive
    /\ next_result = result + 1
    /\ iter = pages[result]
    /\ ~hist.sendFailed

\* C15: a LIST, SET or TUPLE converts to a List with one value per element,
\* in order, each the conversion of its element (an Error value where the
\* element does not convert), whatever the other elements are.
C15_ListElements ==
    (/\ pc = "conv"
     /\ cvOut # ConvIdle
     /\ cvIn.tag \in ListTags
     /\ cvIn.get = "ok")
        => /\ cvOut.variant = "List"
           /\ Len(cvOut.items) = Len(cvIn.p.items)
           /\ \A k \in 1..Len(cvIn.p.items) :
                 cvOut.items[k] = get_cassandra_value(cvIn.p.items[k])

\* C15, the case: a list of an integer and a timestamp out of range was
\* converted and no List came out
C15_ListLostToElement ==
    /\ pc = "conv"
    /\ cvIn.tag = "LIST"
    /\ cvIn.get = "ok"
    /\ Len(cvIn.p.items) = 2
    /\ cvIn.p.items[1].tag = "INT"
    /\ cvIn.p.items[2].tag = "TIMESTAMP"
    /\ cvOut # ConvIdle
    /\ cvOut.variant # "List"

\* an i64 within the range of an i32, and its value as an integer
FitsI32(x) ==
    \/ x[1] = 0 /\ (x[2] < 2 \/ (x[2] = 2 /\ x[3] <= 147483647))
    \/ x[1] = -1 /\ (x[2] > Limb - 3
                        \/ (x[2] = Limb - 3 /\ x[3] >= 852516352))

I64ToInt(x) ==
    IF x[1] = 0 THEN x[2] * Limb + x[3]
    ELSE (x[2] - Limb + 1) * Limb + (x[3] - Limb)

\* C16: a TINY_INT, SMALL_INT or INT value converts to the Int64 of the
\* same value and sign; a BIGINT or COUNTER value to the Int64 it holds.
C16_IntegerWidening ==
    (pc = "conv" /\ cvOut # ConvIdle /\ cvIn.get = "ok") =>
        /\ cvIn.tag \in {"TINY_INT", "SMALL_INT", "INT"} =>
              /\ cvOut.variant = "Int64"
              /\ FitsI32(cvOut.i)
              /\ I64ToInt(cvOut.i) =
                    (CASE cvIn.tag = "TINY_INT" -> cvIn.p.i8
                       [] cvIn.tag = "SMALL_INT" -> cvIn.p.i16
                       [] cvIn.tag = "INT" -> cvIn.p.i32)
        /\ cvIn.tag \in {"BIGINT", "COUNTER"} => cvOut = VInt(cvIn.p.i64)

\* C16, the case: the 4-byte integer -5 was converted
C16_MinusFiveWidened ==
    /\ pc = "conv"
    /\ cvIn = Wire("INT", "ok", [i32 |-> -5])
    /\ cvOut = VInt(I64(-1, 999999999, 999999995))

\* C17: a stream that was drained to its end and holds no error value holds
\* one record for every row of every page of the result set.
C17_NoSilentTruncation ==
    (Drained /\ ErrorsIn(received) = {})
        => Len(received) = Len(AllRowIds)

\* C17, the case: paging_state_token() returned Err on a page that is not
\* the last; the task ended normally and the stream, drained to its end,
\* is short of rows and holds no error value
C17_TokenErrLooksComplete ==
    /\ Drained
    /\ task = "done"
    /\ hist.tokenErr
    /\ result < Len(pages)
    /\ ErrorsIn(received) = {}
    /\ OnlyRows(received)
    /\ Len(received) < Len(AllRowIds)

\* the task of query x waits in tx.send on its full channel
DuoBlocked(x) ==
    /\ rt.thread = x
    /\ rt.q[x].pos \in {"send", "send_err"}
    /\ rt.q[x].rx = "open"
    /\ Len(rt.q[x].chan) = ChannelCapacity

\* the task of query x is ready to be polled
DuoRunnable(x) == rt.q[x].pos \in {"spawned", "woken"}

\* C18: while the task of A waits in its send on the full channel, the
\* task of B can still take its step; and once the task of B is spawned the
\* consumer of B, unless it drops its stream, sees the stream end after
\* B's task has ended, whatever the consumer of A does or does not do.
C18_QueriesIndependent ==
    /\ []((DuoBlocked("A") /\ DuoRunnable("B"))
            => ENABLED DuoTaskStep("B"))
    /\ (rt.q["B"].pos = "spawned")
          ~> (\/ rt.q["B"].rx = "dropped"
              \/ (rt.q["B"].rx = "eos" /\ rt.q["B"].pos = "done"))

\* C18, the case: the task of A waits in its send on the full channel,
\* the task of B is spawned and was never polled, and the consumer of B
\* waits on an empty stream
C18_BStarvedByA ==
    /\ DuoBlocked("A")
    /\ rt.q["A"].pos = "send"
    /\ rt.q["B"].pos = "spawned"
    /\ rt.q["B"].rx = "open"
    /\ rt.q["B"].received = <<>>
    /\ ~ENABLED DuoTaskStep("B")

=============================================================================
